---- MODULE Spec2Model ----
(***************************************************************************)
(* Photoperiod application (src/src/App.jsx and the earlier revisions in   *)
(* src/unnamed/part_003 and part_004): the configuration held in React     *)
(* state, the sampled clock `now`, and the values derived from them on     *)
(* every render (cycle length, in-cycle offset, live phase, day x hour     *)
(* calendar, next change event), together with the page's host state:      *)
(* local storage, the autosave timeout, the clock interval and the mount   *)
(* sequence of src/src/main.jsx (rev selects the revision whose load and   *)
(* save code runs: App.jsx, part_002 or part_003).                         *)
(*                                                                         *)
(* Units.  Instants are whole seconds counted from local midnight of the   *)
(* day the application was opened; the local zone has no clock change in   *)
(* the modelled range.  Every quantity the code holds in hours             *)
(* (hoursLight, hoursDark, cycleLength, hoursSinceStart, ...) is held here *)
(* in seconds, i.e. multiplied by SecPerHour, so 12.5 h is 45000.  All     *)
(* values drawn below are multiples of a quarter hour, for which the       *)
(* code's double arithmetic is exact.  The guard value 0.0000001 h of      *)
(* cycleLength is below the resolution and is held as one unit (Epsilon).  *)
(***************************************************************************)
EXTENDS Integers, Sequences, FiniteSets, TLC

VARIABLES startDate, startDateObj, hoursLight, hoursDark, durationDays, now, errorMsg,
          memo, storage, saveTimer, tickTimers, mount, queued, alerted, rev,
          storedAtMount

\* storedAtMount is a history variable: the content of local storage when the
\* page was opened.  No action reads it.
vars == <<startDate, startDateObj, hoursLight, hoursDark, durationDays, now, errorMsg,
          memo, storage, saveTimer, tickTimers, mount, queued, alerted, rev,
          storedAtMount>>

-----------------------------------------------------------------------------
(* Program constants *)

SecPerHour == 3600
HoursPerDay == 24
SecPerDay == HoursPerDay * SecPerHour
Epsilon == 1
Epsilon_p3 == 1
DefaultHoursLight == 13
DefaultHoursDark == 14
DefaultDurationDays == 60
MaxHours == 9999
MaxDurationDays == 9999

(* Bounds of the exploration *)

MaxDays == 2
MaxNowSteps == 60
MaxK == 2
MaxFileDays == 60
MaxSaveTicks == 2

NowStep == SecPerHour \div 2
Hrs(n) == n * SecPerHour
HalfHour == SecPerHour \div 2

\* values a user types in the hour fields (negative values are clamped to 0)
TypedLight == {0 - Hrs(1), 0, Hrs(10), Hrs(12), Hrs(12) + HalfHour, Hrs(13)}
TypedDark == {0, Hrs(10), Hrs(11) + HalfHour, Hrs(12), Hrs(14), Hrs(24)}
\* values a user types in the duration field (0 is clamped to 1)
TypedDays == 0..MaxDays
\* instants a user picks in the datetime-local field
TypedStart == {0, HalfHour, Hrs(5), Hrs(6) + (SecPerHour \div 4), SecPerDay}
NowChoices == {k * NowStep : k \in 0..MaxNowSteps}

-----------------------------------------------------------------------------
(* JavaScript primitives *)

\* the % operator of JavaScript: the result takes the sign of the dividend
JsRem(a, b) == IF a >= 0 THEN a % b ELSE 0 - ((0 - a) % b)

Max(a, b) == IF a >= b THEN a ELSE b
Min(a, b) == IF a <= b THEN a ELSE b

clamp(n, min, max) == Max(min, Min(max, n))

\* Date accessors in local time
getHours(t) == (t % SecPerDay) \div SecPerHour
getMinutes(t) == (t % SecPerHour) \div 60
getSeconds(t) == t % 60
\* d.setHours(0,0,0,0)
startOfDay(t) == t - (t % SecPerDay)

\* a startDate string: kind "ok" is a parsable local date-time (t the instant
\* it denotes), kind "empty" the empty string
DateStr(t) == [kind |-> "ok", t |-> t]
\* the empty string, and a non-empty string that new Date() cannot parse
EmptyStr == [kind |-> "empty", t |-> 0]
BadStr == [kind |-> "bad", t |-> 0]

\* a property of a parsed JSON record: a number, null, a non-numeric string,
\* or not present
Num(v) == [kind |-> "num", v |-> v]
Null == [kind |-> "null", v |-> 0]
Text == [kind |-> "text", v |-> 0]
Absent == [kind |-> "absent", v |-> 0]
\* Number.isFinite(Number(x)) and Number(x): Number(null) is 0, Number of a
\* non-numeric string or of undefined is NaN
isFiniteNumber(x) == x.kind \in {"num", "null"}
NumberOf(x) == IF x.kind = "num" THEN x.v ELSE 0

-----------------------------------------------------------------------------
(* Derived values of src/src/App.jsx (both components compute them alike) *)

validateMsg_nodark(s, hL, hD, dd) ==
    IF s.kind = "empty" THEN "La fecha de inicio es requerida."
    ELSE IF s.kind # "ok" THEN "Formato de fecha invalido."
    ELSE IF hL < 0 THEN "Horas de luz invalidas."
    ELSE IF dd < 1 THEN "Duracion debe ser >= 1 dia."
    ELSE ""
\* the message left by validateInputs for a configuration ("" when it returns true)
validateMsg(s, hL, hD, dd) ==
    IF s.kind = "empty" THEN "La fecha de inicio es requerida."
    ELSE IF s.kind # "ok" THEN "Formato de fecha invalido."
    ELSE IF hL < 0 THEN "Horas de luz invalidas."
    ELSE IF hD < 0 THEN "Horas de oscuridad invalidas."
    ELSE IF dd < 1 THEN "Duracion debe ser >= 1 dia."
    ELSE ""

validateInputs == validateMsg(startDate, hoursLight, hoursDark, durationDays) = ""

cycleLength_padded == hoursLight + hoursDark + Epsilon
cycleLength_abs ==
    LET sum == hoursLight + hoursDark
    IN  IF sum > 0 THEN sum ELSE IF sum < 0 THEN 0 - sum ELSE Epsilon
cycleLength ==
    LET sum == hoursLight + hoursDark
    IN  IF sum > 0 THEN sum ELSE Epsilon

fractionalStartOffset_nomin ==
    getHours(startDateObj) * SecPerHour
fractionalStartOffset ==
    getHours(startDateObj) * SecPerHour
      + getMinutes(startDateObj) * (SecPerHour \div 60)
      + getSeconds(startDateObj) * (SecPerHour \div 3600)

hoursSinceStartNow == now - startDateObj

InCycle_trunc(x, c) == JsRem(x, c)
\* ((x % cycleLength) + cycleLength) % cycleLength
InCycle(x, c) == JsRem(JsRem(x, c) + c, c)

currentInCycle == InCycle(hoursSinceStartNow, cycleLength)

isNowLight_le == currentInCycle <= hoursLight
isNowLight == currentInCycle < hoursLight

customCycleDayIndex_trunc ==
    IF hoursSinceStartNow >= 0 THEN hoursSinceStartNow \div cycleLength
    ELSE 0 - ((0 - hoursSinceStartNow) \div cycleLength)
\* Math.floor(hoursSinceStartNow / cycleLength)
customCycleDayIndex == hoursSinceStartNow \div cycleLength

\* the "DIAS SUPER CICLO" figure of the Estado panel
displayedSuperCycle_raw == customCycleDayIndex
displayedSuperCycle == Max(0, customCycleDayIndex)

\* first component, "DIAS 24 HS": Math.max(0, days24h).toFixed(2), in hundredths
\* of a day (toFixed rounds to the nearest hundredth, a tie to the larger one)
displayedDays24h ==
    (2 * 100 * Max(0, hoursSinceStartNow) + SecPerDay) \div (2 * SecPerDay)

\* second component: formattedTimeElapsed; display is the list of parts that
\* the code joins with ' y ', each part a pair <<number, unit>>
formattedTimeElapsed ==
    IF hoursSinceStartNow < 0
    THEN [days |-> 0, hours |-> 0, minutes |-> 0, display |-> << <<0, "d">> >>]
    ELSE LET totalMinutes == (hoursSinceStartNow * 60) \div SecPerHour
             days == totalMinutes \div (HoursPerDay * 60)
             rest == totalMinutes % (HoursPerDay * 60)
             hours == rest \div 60
             minutes == rest % 60
             parts == (IF days > 0 THEN << <<days, "d">> >> ELSE << >>)
                        \o (IF hours > 0 \/ (days = 0 /\ minutes > 0)
                            THEN << <<hours, "h">> >> ELSE << >>)
                        \o (IF minutes > 0 /\ days = 0 /\ hours = 0
                            THEN << <<minutes, "m">> >> ELSE << >>)
         IN  [days |-> days, hours |-> hours, minutes |-> minutes,
              display |-> IF Len(parts) > 0 THEN parts ELSE << <<0, "d">> >>]

isLightAtAbsoluteHours_byDark(hoursSinceStart) ==
    InCycle(hoursSinceStart, cycleLength) < hoursDark
isLightAtAbsoluteHours_le(hoursSinceStart) ==
    InCycle(hoursSinceStart, cycleLength) <= hoursLight
isLightAtAbsoluteHours(hoursSinceStart) ==
    InCycle(hoursSinceStart, cycleLength) < hoursLight

calendarDays_noclamp == durationDays
\* clamp(Number(durationDays) || 0, 1, 9999)
calendarDays == clamp(durationDays, 1, MaxDurationDays)

calendar_hour1 ==
    [d \in 0..(calendarDays - 1) |->
        [h \in 0..(HoursPerDay - 1) |->
            isLightAtAbsoluteHours(d * SecPerDay + (h + 1) * SecPerHour - fractionalStartOffset)]]
calendar ==
    [d \in 0..(calendarDays - 1) |->
        [h \in 0..(HoursPerDay - 1) |->
            isLightAtAbsoluteHours(d * SecPerDay + h * SecPerHour - fractionalStartOffset)]]

\* second component: each cell is a record
calendar_B ==
    [d \in 0..(calendarDays - 1) |->
        [h \in 0..(HoursPerDay - 1) |->
            [isLight |-> isLightAtAbsoluteHours(d * SecPerDay + h * SecPerHour - fractionalStartOffset)]]]

\* first component: the highlighted cell, from the elapsed time
currentHourIndex == InCycle(hoursSinceStartNow, SecPerDay) \div SecPerHour
currentDayIndex24h == hoursSinceStartNow \div SecPerDay

\* second component: the highlighted cell
currentHourIndex_B == getHours(now)
currentDayIndex24h_B == (startOfDay(now) - startOfDay(startDateObj)) \div SecPerDay

nextChangeEvent_cycle ==
    LET raw == cycleLength - currentInCycle
        hoursToNext == IF raw < 0 THEN 0 ELSE raw
    IN  [hoursToNext |-> hoursToNext,
         nextState |-> IF isNowLight THEN "Oscuridad" ELSE "Luz",
         at |-> now + hoursToNext]
nextChangeEvent_label ==
    LET raw == IF isNowLight THEN hoursLight - currentInCycle ELSE cycleLength - currentInCycle
        hoursToNext == IF raw < 0 THEN 0 ELSE raw
    IN  [hoursToNext |-> hoursToNext,
         nextState |-> IF isNowLight THEN "Luz" ELSE "Oscuridad",
         at |-> now + hoursToNext]
nextChangeEvent_swapped ==
    LET raw == IF isNowLight THEN cycleLength - currentInCycle ELSE hoursLight - currentInCycle
        hoursToNext == IF raw < 0 THEN 0 ELSE raw
    IN  [hoursToNext |-> hoursToNext,
         nextState |-> IF isNowLight THEN "Oscuridad" ELSE "Luz",
         at |-> now + hoursToNext]
nextChangeEvent ==
    LET raw == IF isNowLight THEN hoursLight - currentInCycle ELSE cycleLength - currentInCycle
        hoursToNext == IF raw < 0 THEN 0 ELSE raw
    IN  [hoursToNext |-> hoursToNext,
         nextState |-> IF isNowLight THEN "Oscuridad" ELSE "Luz",
         at |-> now + hoursToNext]

-----------------------------------------------------------------------------
(* useMemo: what the page displays.  A memoised value is recomputed on a    *)
(* render only when its dependency list differs from the one of the render  *)
(* that computed it; otherwise the value of that earlier render is shown.   *)
(* The variable memo holds, for each memoised value of the live status and  *)
(* for the calendar, the value and the dependency list it was computed      *)
(* under.  startDateObj (dependency [startDate]) is a variable of its own;  *)
(* cycleLength and fractionalStartOffset depend on exactly the values they  *)
(* read and are computed directly.                                          *)

hoursSinceStartNowDeps(nw, sdo) == <<nw, sdo>>
currentInCycleDeps(hss, cL) == <<hss, cL>>
isNowLightDeps_noLight(inC, hL) == <<inC>>
isNowLightDeps(inC, hL) == <<inC, hL>>
\* part_003: [hoursSinceStartNow, cycleLength]
isNowLightDeps_p3(hss, cL) == <<hss, cL>>
nextChangeEventDeps(nw, lit, inC, hL, hD, cL) == <<nw, lit, inC, hL, hD, cL>>
calendarDeps_noDark(dd, fso, hL, hD) == <<dd, fso, hL>>
calendarDeps(dd, fso, hL, hD) == <<dd, fso, hL, hD>>
calendarDeps_B(dd, fso, hL, hD, cL, sdo) == <<dd, fso, hL, hD, cL, sdo>>

\* the body of the nextChangeEvent memo, on the values its closure holds
nextChangeEventOf(lit, inC, hL, cL, nw) ==
    LET raw == IF lit THEN hL - inC ELSE cL - inC
        hoursToNext == IF raw < 0 THEN 0 ELSE raw
    IN  [hoursToNext |-> hoursToNext,
         nextState |-> IF lit THEN "Oscuridad" ELSE "Luz",
         at |-> nw + hoursToNext]

\* the body of the calendar memo, on the values its closure holds
buildCalendar(dd, fso, hL, cL) ==
    [d \in 0..(clamp(dd, 1, MaxDurationDays) - 1) |->
        [h \in 0..(HoursPerDay - 1) |->
            InCycle(d * SecPerDay + h * SecPerHour - fso, cL) < hL]]

\* before the first render nothing is memoised
NoMemo ==
    [hss |-> 0, hssDeps |-> << >>, inC |-> 0, inCDeps |-> << >>,
     lit |-> FALSE, litDeps |-> << >>,
     next |-> [hoursToNext |-> 0, nextState |-> "", at |-> 0], nextDeps |-> << >>,
     cal |-> [dd |-> 0, fso |-> 0, hL |-> 0, cL |-> 0], calDeps |-> << >>,
     calB |-> [dd |-> 0, fso |-> 0, hL |-> 0, cL |-> 0], calBDeps |-> << >>]

\* one render: each memo in the order the component declares them.  The
\* calendar is kept as the closure values it was built from.
Render(m, nw, sdo, hL, hD, dd, cL, fso) ==
    LET hssD == hoursSinceStartNowDeps(nw, sdo)
        hss == IF hssD = m.hssDeps THEN m.hss ELSE nw - sdo
        inCD == currentInCycleDeps(hss, cL)
        inC == IF inCD = m.inCDeps THEN m.inC ELSE InCycle(hss, cL)
        litD == IF rev = "p3" THEN isNowLightDeps_p3(hss, cL) ELSE isNowLightDeps(inC, hL)
        lit == IF litD = m.litDeps THEN m.lit
               ELSE IF rev = "p3" THEN InCycle(hss, cL) < hL ELSE inC < hL
        nextD == nextChangeEventDeps(nw, lit, inC, hL, hD, cL)
        next == IF nextD = m.nextDeps THEN m.next
                ELSE nextChangeEventOf(lit, inC, hL, cL, nw)
        calD == calendarDeps(dd, fso, hL, hD)
        cal == IF calD = m.calDeps THEN m.cal
               ELSE [dd |-> dd, fso |-> fso, hL |-> hL, cL |-> cL]
        calBD == calendarDeps_B(dd, fso, hL, hD, cL, sdo)
        calB == IF calBD = m.calBDeps THEN m.calB
                ELSE [dd |-> dd, fso |-> fso, hL |-> hL, cL |-> cL]
    IN  [hss |-> hss, hssDeps |-> hssD, inC |-> inC, inCDeps |-> inCD,
         lit |-> lit, litDeps |-> litD, next |-> next, nextDeps |-> nextD,
         cal |-> cal, calDeps |-> calD, calB |-> calB, calBDeps |-> calBD]

\* the calendar on the page, first and second component
displayedCalendar == buildCalendar(memo.cal.dd, memo.cal.fso, memo.cal.hL, memo.cal.cL)
displayedCalendar_B ==
    LET g == buildCalendar(memo.calB.dd, memo.calB.fso, memo.calB.hL, memo.calB.cL)
    IN  [d \in DOMAIN g |-> [h \in DOMAIN g[d] |-> [isLight |-> g[d][h]]]]

-----------------------------------------------------------------------------
(* src/unnamed/part_004: the unified phase function *)

getLightPhase_nomod(hoursSinceStart, hL, cL) ==
    IF hL <= 0 THEN FALSE
    ELSE IF cL <= hL THEN TRUE
    ELSE JsRem(hoursSinceStart, cL) < hL
getLightPhase(hoursSinceStart, hL, cL) ==
    IF hL <= 0 THEN FALSE
    ELSE IF cL <= hL THEN TRUE
    ELSE InCycle(hoursSinceStart, cL) < hL

\* part_004 computes the live phase with the unified function
isNowLight_p4 == getLightPhase(hoursSinceStartNow, hoursLight, cycleLength)

\* the loop "while (lightEndAbsolute < hoursSinceStartNow)" of lightScheduleToday
RECURSIVE adjustLightWindow(_, _, _, _)
adjustLightWindow(lightStart, lightEnd, hss, cycleLen) ==
    IF lightEnd < hss
    THEN adjustLightWindow(lightStart + cycleLen, lightEnd + cycleLen, hss, cycleLen)
    ELSE <<lightStart, lightEnd>>

\* formatDateTime: an instant shown to the minute
formatDateTime(t) == t - (t % 60)

\* part_004: lightScheduleToday; lightStart / lightEnd are the displayed
\* instants, N/A being held as the status alone
lightScheduleToday_p4 ==
    IF hoursLight = 0
    THEN [status |-> "Oscuridad total", lightStart |-> 0, lightEnd |-> 0, isLightActive |-> FALSE]
    ELSE IF hoursDark = 0
    THEN [status |-> "Luz continua", lightStart |-> 0, lightEnd |-> 0, isLightActive |-> TRUE]
    ELSE
      LET currentCycleStartAbsoluteHours == hoursSinceStartNow - currentInCycle
          lightStart0 == IF isNowLight_p4 THEN currentCycleStartAbsoluteHours
                         ELSE currentCycleStartAbsoluteHours - hoursDark
          w == adjustLightWindow(lightStart0, lightStart0 + hoursLight,
                                 hoursSinceStartNow, cycleLength)
          shift == IF ~isNowLight_p4 /\ w[1] < hoursSinceStartNow THEN cycleLength ELSE 0
      IN  [status |-> "", lightStart |-> formatDateTime(startDateObj + w[1] + shift),
           lightEnd |-> formatDateTime(startDateObj + w[2] + shift),
           isLightActive |-> isNowLight_p4]

\* part_004: nextChangeEvent
nextChangeEvent_p4 ==
    nextChangeEventOf(isNowLight_p4, currentInCycle, hoursLight, cycleLength, now)

-----------------------------------------------------------------------------
(* src/unnamed/part_003: the prototype *)

cycleLength_p3 == Max(Epsilon_p3, hoursLight + hoursDark)

isLightAtAbsoluteHours_p3(hoursSinceStart) ==
    InCycle(hoursSinceStart, cycleLength_p3) < hoursLight

calendar_p3_plus ==
    [d \in 0..(durationDays - 1) |->
        [h \in 0..(HoursPerDay - 1) |->
            isLightAtAbsoluteHours_p3(d * SecPerDay + h * SecPerHour + fractionalStartOffset)]]
calendar_p3 ==
    [d \in 0..(durationDays - 1) |->
        [h \in 0..(HoursPerDay - 1) |->
            isLightAtAbsoluteHours_p3(d * SecPerDay + h * SecPerHour - fractionalStartOffset)]]

-----------------------------------------------------------------------------
(* State machine *)

\* new Date(startDate), falling back to the host clock when unparsable
parseStart(s, clock) == IF s.kind = "ok" THEN s.t ELSE clock

\* A file or a stored item: json is FALSE when the text is not JSON (or is the
\* JSON null), otherwise the four properties of the record.
File(sd, hL, hD, dd) ==
    [json |-> TRUE, object |-> TRUE,
     startDate |-> sd, hoursLight |-> hL, hoursDark |-> hD, durationDays |-> dd]
NotJson ==
    [json |-> FALSE, object |-> FALSE,
     startDate |-> Absent, hoursLight |-> Absent, hoursDark |-> Absent, durationDays |-> Absent]
\* JSON that is neither an object nor null (a number, a string, an array):
\* every property read gives undefined
NotObject ==
    [json |-> TRUE, object |-> FALSE,
     startDate |-> Absent, hoursLight |-> Absent, hoursDark |-> Absent, durationDays |-> Absent]

\* the four configuration fields, as the closures of a render hold them
Config ==
    [startDate |-> startDate, hoursLight |-> hoursLight, hoursDark |-> hoursDark,
     durationDays |-> durationDays]
NoCfg == [startDate |-> EmptyStr, hoursLight |-> 0, hoursDark |-> 0, durationDays |-> 0]

\* JSON.stringify({ startDate, hoursLight, hoursDark, durationDays })
toJSON(cfg) ==
    [json |-> TRUE, object |-> TRUE, startDate |-> cfg.startDate,
     hoursLight |-> Num(cfg.hoursLight), hoursDark |-> Num(cfg.hoursDark),
     durationDays |-> Num(cfg.durationDays)]

\* localStorage under STORAGE_KEY: nothing, or the stored text
NoItem == [present |-> FALSE, item |-> NotJson]
Item(f) == [present |-> TRUE, item |-> f]

\* the timeout of the autosave effect: none, or one that will write cfg
NoTimer == [pending |-> FALSE, cfg |-> NoCfg]
Timer(cfg) == [pending |-> TRUE, cfg |-> cfg]

\* a variant whose cleanup does not clear the pending timeout
Effects_keepTimer(alert) ==
    /\ mount = "mounted"
    /\ saveTimer' = IF rev # "p3" /\ Config' # Config /\ ~saveTimer.pending
                    THEN Timer(Config') ELSE saveTimer
    /\ storage' = IF rev = "p3" /\ Config' # Config THEN Item(toJSON(Config')) ELSE storage
    /\ alerted' = alert
    /\ UNCHANGED <<tickTimers, mount, queued, rev, storedAtMount>>

\* What follows a handler of the mounted view besides the render: the
\* autosave effect reruns when one of its four dependencies changed (App.jsx:
\* the cleanup clears the pending timeout and a new one is set; part_003: the
\* record is written at once); alert says whether the handler raised the
\* (modal) alert.
Effects(alert) ==
    /\ mount = "mounted"
    /\ saveTimer' = IF rev # "p3" /\ Config' # Config THEN Timer(Config') ELSE saveTimer
    /\ storage' = IF rev = "p3" /\ Config' # Config THEN Item(toJSON(Config')) ELSE storage
    /\ alerted' = alert
    /\ UNCHANGED <<tickTimers, mount, queued, rev, storedAtMount>>

\* the mounted view of src/src/App.jsx: one interval, the save of the
\* rendered configuration pending, st in local storage
MountedHost(st) ==
    /\ rev = "app"
    /\ storedAtMount = st
    /\ mount = "mounted"
    /\ tickTimers = 1
    /\ saveTimer = Timer(Config)
    /\ storage = st
    /\ queued = NoCfg
    /\ alerted = FALSE

\* the first render after construction
FirstRender ==
    memo = Render(NoMemo, now, startDateObj, hoursLight, hoursDark, durationDays,
                  cycleLength, fractionalStartOffset)

\* the render that follows a state update
Rerender ==
    memo' = Render(memo, now', startDateObj', hoursLight', hoursDark', durationDays',
                   cycleLength', fractionalStartOffset')

Init ==
    /\ now \in NowChoices
    /\ startDate = DateStr(startOfDay(now))
    /\ startDateObj = startOfDay(now)
    /\ hoursLight = Hrs(DefaultHoursLight)
    /\ hoursDark = Hrs(DefaultHoursDark)
    /\ durationDays = DefaultDurationDays
    /\ errorMsg = ""
    /\ MountedHost(NoItem)
    /\ FirstRender

\* onChange of the datetime-local field
SetStartDate ==
    \E s \in {DateStr(t) : t \in TypedStart} :
        /\ startDate' = s
        /\ startDateObj' = IF s = startDate THEN startDateObj ELSE parseStart(s, now)
        /\ errorMsg' = validateMsg(s, hoursLight, hoursDark, durationDays)
        /\ UNCHANGED <<hoursLight, hoursDark, durationDays, now>>
        /\ Rerender
        /\ Effects(FALSE)

\* onChange of "Horas luz"
SetHoursLight ==
    \E v \in TypedLight :
        /\ hoursLight' = clamp(v, 0, Hrs(MaxHours))
        /\ errorMsg' = validateMsg(startDate, hoursLight', hoursDark, durationDays)
        /\ UNCHANGED <<startDate, startDateObj, hoursDark, durationDays, now>>
        /\ Rerender
        /\ Effects(FALSE)

\* onChange of "Horas oscuridad"
SetHoursDark ==
    \E v \in TypedDark :
        /\ hoursDark' = clamp(v, 0, Hrs(MaxHours))
        /\ errorMsg' = validateMsg(startDate, hoursLight, hoursDark', durationDays)
        /\ UNCHANGED <<startDate, startDateObj, hoursLight, durationDays, now>>
        /\ Rerender
        /\ Effects(FALSE)

\* onChange of "Duracion (dias)"
SetDurationDays ==
    \E v \in TypedDays :
        /\ durationDays' = clamp(v, 1, MaxDurationDays)
        /\ errorMsg' = validateMsg(startDate, hoursLight, hoursDark, durationDays')
        /\ UNCHANGED <<startDate, startDateObj, hoursLight, hoursDark, now>>
        /\ Rerender
        /\ Effects(FALSE)

\* the interval callback: setNow(new Date())
Tick ==
    /\ tickTimers > 0
    /\ now < MaxNowSteps * NowStep
    /\ now' = now + NowStep
    /\ UNCHANGED <<startDate, startDateObj, hoursLight, hoursDark, durationDays, errorMsg>>
    /\ Rerender
    /\ Effects(FALSE)

\* the Reset button
resetDefaults ==
    /\ startDate' = DateStr(startOfDay(now))
    /\ startDateObj' = startOfDay(now)
    /\ hoursLight' = Hrs(DefaultHoursLight)
    /\ hoursDark' = Hrs(DefaultHoursDark)
    /\ durationDays' = DefaultDurationDays
    /\ errorMsg' = ""
    /\ UNCHANGED now
    /\ Rerender
    /\ Effects(FALSE)

\* the datetime-local field is cleared
ClearStartDate ==
    /\ startDate' = EmptyStr
    /\ startDateObj' = IF EmptyStr = startDate THEN startDateObj ELSE parseStart(EmptyStr, now)
    /\ errorMsg' = validateMsg(EmptyStr, hoursLight, hoursDark, durationDays)
    /\ UNCHANGED <<hoursLight, hoursDark, durationDays, now>>
    /\ Rerender
    /\ Effects(FALSE)

\* the conditional setters shared by handleImport and the load effect
recStart(f, cur) ==
    IF f.json /\ f.startDate.kind \in {"ok", "bad"}
    THEN [kind |-> f.startDate.kind, t |-> f.startDate.t] ELSE cur
recNumber(f, x, cur) ==
    IF f.json /\ isFiniteNumber(x) THEN NumberOf(x) ELSE cur

\* reader.onload of handleImport for the file f
ImportFile(f) ==
    /\ startDate' = recStart(f, startDate)
    /\ startDateObj' = IF startDate' = startDate THEN startDateObj
                       ELSE parseStart(startDate', now)
    /\ hoursLight' = recNumber(f, f.hoursLight, hoursLight)
    /\ hoursDark' = recNumber(f, f.hoursDark, hoursDark)
    /\ durationDays' = recNumber(f, f.durationDays, durationDays)
    /\ errorMsg' = validateMsg(startDate', hoursLight', hoursDark', durationDays')
    /\ UNCHANGED now
    /\ Rerender
    /\ Effects(~f.json)

Next ==
    \/ SetStartDate
    \/ SetHoursLight
    \/ SetHoursDark
    \/ SetDurationDays
    \/ Tick
    \/ resetDefaults

Spec == Init /\ [][Next]_vars

\* the grid of a configuration the user has entered (short durations)
InitGrid ==
    /\ now \in {0, Hrs(13)}
    /\ \E t \in TypedStart : startDate = DateStr(t) /\ startDateObj = t
    /\ hoursLight \in {clamp(v, 0, Hrs(MaxHours)) : v \in TypedLight}
    /\ hoursDark \in {clamp(v, 0, Hrs(MaxHours)) : v \in TypedDark}
    /\ durationDays \in {clamp(v, 1, MaxDurationDays) : v \in TypedDays}
    /\ errorMsg = ""
    /\ MountedHost(NoItem)
    /\ FirstRender

NextGrid ==
    \/ SetHoursLight
    \/ SetHoursDark
    \/ SetDurationDays
    \/ Tick

SpecGrid == InitGrid /\ [][NextGrid]_vars

\* files and stored items with invalid, partial and valid content
IOFiles ==
    {NotJson, NotObject,
     File(Absent, Num(0 - Hrs(5)), Absent, Absent),
     File(Absent, Absent, Num(0 - Hrs(2)), Num(0)),
     File(Absent, Absent, Null, Num(0 - 3)),
     File(BadStr, Absent, Absent, Absent),
     File(DateStr(HalfHour), Num(Hrs(12)), Num(Hrs(12)), Num(2)),
     File(EmptyStr, Text, Absent, Text),
     File(Absent, Num(0), Num(0), Num(1))}

ImportIO == \E f \in IOFiles : ImportFile(f)

\* what local storage holds when the view mounts: nothing, an invalid record,
\* a valid one
StoredItems ==
    {NoItem,
     Item(File(BadStr, Absent, Num(0 - Hrs(2)), Num(0))),
     Item(File(DateStr(HalfHour), Num(Hrs(12)), Num(Hrs(12)), Num(2)))}

\* the state after the mount: the defaults, then the load effect on the stored
\* item (if any), then the validation effect
InitIO ==
    /\ now \in {0, Hrs(13) + HalfHour}
    /\ \E st \in StoredItems :
        /\ startDate = recStart(st.item, DateStr(startOfDay(now)))
        /\ startDateObj = parseStart(startDate, now)
        /\ hoursLight = recNumber(st.item, st.item.hoursLight, Hrs(DefaultHoursLight))
        /\ hoursDark = recNumber(st.item, st.item.hoursDark, Hrs(DefaultHoursDark))
        /\ durationDays = recNumber(st.item, st.item.durationDays, DefaultDurationDays)
        /\ storage = st
    /\ errorMsg = validateMsg(startDate, hoursLight, hoursDark, durationDays)
    /\ MountedHost(storage)
    /\ FirstRender

NextIO ==
    \/ ImportIO
    \/ ClearStartDate
    \/ SetStartDate
    \/ SetHoursLight
    \/ SetHoursDark
    \/ SetDurationDays
    \/ resetDefaults

SpecIO == InitIO /\ [][NextIO]_vars

\* durations that arrive through a file: zero, negative, small, at and above
\* the maximum, null, a non-numeric string
ShapeFiles ==
    {File(Absent, Absent, Absent, dd) :
        dd \in {Num(v) : v \in (0 - MaxFileDays)..MaxFileDays}
                \cup {Num(MaxDurationDays), Num(MaxDurationDays + 1), Null, Text}}

ImportShape == \E f \in ShapeFiles : ImportFile(f)

\* the application opened at midnight, then durations typed or imported
InitShape == Init /\ now = 0

NextShape ==
    \/ ImportShape
    \/ SetDurationDays

SpecShape == InitShape /\ [][NextShape]_vars

\* The debounced autosave of src/src/App.jsx.  The pending timeout fires:
\* the configuration captured by the effect that set it is written.
SaveFire ==
    /\ saveTimer.pending
    /\ mount \in {"effects", "mounted"}
    /\ storage' = Item(toJSON(saveTimer.cfg))
    /\ saveTimer' = NoTimer
    /\ UNCHANGED <<startDate, startDateObj, hoursLight, hoursDark, durationDays, now,
                   errorMsg, memo, tickTimers, mount, queued, alerted, rev, storedAtMount>>

\* the interval fires, a bounded number of times
TickSave == Tick /\ now < MaxSaveTicks * NowStep

InitSave == Init /\ now = 0

NextSave ==
    \/ SetHoursLight
    \/ SetDurationDays
    \/ resetDefaults
    \/ TickSave
    \/ SaveFire

SpecSave == InitSave /\ [][NextSave]_vars

\* the configurations SpecSave reaches
SaveConfigs ==
    {[startDate |-> DateStr(0), hoursLight |-> clamp(hL, 0, Hrs(MaxHours)),
      hoursDark |-> Hrs(DefaultHoursDark), durationDays |-> dd] :
        hL \in TypedLight \cup {Hrs(DefaultHoursLight)},
        dd \in {clamp(v, 1, MaxDurationDays) : v \in TypedDays} \cup {DefaultDurationDays}}

\* A timeout that is set fires 300 ms later unless a cleanup clears it: the
\* save of a configuration that stays pending is eventually performed.
SpecSaveFair ==
    SpecSave /\ \A c \in SaveConfigs : WF_vars(SaveFire /\ saveTimer.cfg = c)


\* Mounting under src/src/main.jsx.  mount is the position of the root:
\* "rendered" (first render done, effects not yet run), "strictSetup" and
\* "strictCleaned" (StrictMode's simulated unmount, run synchronously after the
\* first setup), "effects" (mount effects done, the render of the queued
\* state updates still to come), "mounted", "unmounted".  queued is the
\* configuration the setters called by the load effect have queued.

\* part_003 renders its default start with toISOString: local midnight shown
\* in UTC, read back as local time (zone three hours behind UTC)
isoShift == Hrs(3)
defaultStart(r, clock) ==
    DateStr(startOfDay(clock) + (IF r = "p3" THEN isoShift ELSE 0))

\* part_003: if (obj.x !== undefined) setX(obj.x), for numeric properties
recNumber_p3(f, x, cur) ==
    IF f.json /\ x.kind = "num" THEN x.v ELSE cur

\* src/unnamed/part_002: if (obj.x) setX(Number(obj.x)), for properties that
\* are numbers, null or not present
recNumber_p2(f, x, cur) ==
    IF f.json /\ x.kind = "num" /\ x.v # 0 THEN x.v ELSE cur

\* the load effect's setter for one numeric property, per revision
recNumberOf(r, f, x, cur) ==
    IF r = "app" THEN recNumber(f, x, cur)
    ELSE IF r = "p2" THEN recNumber_p2(f, x, cur)
    ELSE recNumber_p3(f, x, cur)

\* the configuration after the setters of the load effect, from cur
loadRecord(f, cur) ==
    [startDate |-> recStart(f, cur.startDate),
     hoursLight |-> recNumberOf(rev, f, f.hoursLight, cur.hoursLight),
     hoursDark |-> recNumberOf(rev, f, f.hoursDark, cur.hoursDark),
     durationDays |-> recNumberOf(rev, f, f.durationDays, cur.durationDays)]

\* valid configurations found in local storage at mount
StoredConfigs ==
    {[startDate |-> DateStr(HalfHour), hoursLight |-> Hrs(12), hoursDark |-> Hrs(12),
      durationDays |-> 2],
     [startDate |-> DateStr(Hrs(5)), hoursLight |-> 0, hoursDark |-> Hrs(24),
      durationDays |-> 1],
     [startDate |-> DateStr(SecPerDay), hoursLight |-> Hrs(10), hoursDark |-> 0,
      durationDays |-> 7]}

InitMount ==
    /\ rev \in {"app", "p2", "p3"}
    /\ now \in {0, NowStep}
    /\ startDate = defaultStart(rev, now)
    /\ startDateObj = parseStart(startDate, now)
    /\ hoursLight = Hrs(DefaultHoursLight)
    /\ hoursDark = Hrs(DefaultHoursDark)
    /\ durationDays = DefaultDurationDays
    /\ errorMsg = ""
    /\ FirstRender
    /\ storage \in {NoItem} \cup {Item(toJSON(S)) : S \in StoredConfigs}
    /\ storedAtMount = storage
    /\ saveTimer = NoTimer
    /\ tickTimers = 0
    /\ mount = "rendered"
    /\ queued = NoCfg
    /\ alerted = FALSE

\* the effects of the first render, in the order they are declared: load,
\* autosave, interval
MountEffects(strict) ==
    /\ mount = "rendered"
    /\ queued' = IF storage.present THEN loadRecord(storage.item, Config) ELSE Config
    /\ saveTimer' = IF rev # "p3" THEN Timer(Config) ELSE saveTimer
    /\ storage' = IF rev = "p3" THEN Item(toJSON(Config)) ELSE storage
    /\ tickTimers' = tickTimers + 1
    /\ mount' = IF strict THEN "strictSetup" ELSE "effects"
    /\ UNCHANGED <<startDate, startDateObj, hoursLight, hoursDark, durationDays, now,
                   errorMsg, memo, alerted, rev, storedAtMount>>

\* a variant of the cleanup that leaves the interval running
StrictCleanup_noClear ==
    /\ mount = "strictSetup"
    /\ saveTimer' = NoTimer
    /\ mount' = "strictCleaned"
    /\ UNCHANGED <<startDate, startDateObj, hoursLight, hoursDark, durationDays, now,
                   errorMsg, memo, storage, tickTimers, queued, alerted, rev,
                   storedAtMount>>

\* StrictMode: the cleanups of the effects just set up (clearTimeout,
\* clearInterval)
StrictCleanup ==
    /\ mount = "strictSetup"
    /\ saveTimer' = NoTimer
    /\ tickTimers' = tickTimers - 1
    /\ mount' = "strictCleaned"
    /\ UNCHANGED <<startDate, startDateObj, hoursLight, hoursDark, durationDays, now,
                   errorMsg, memo, storage, queued, alerted, rev, storedAtMount>>

\* StrictMode: the effects run again with the closure of the first render
StrictRemount ==
    /\ mount = "strictCleaned"
    /\ queued' = IF storage.present THEN loadRecord(storage.item, queued) ELSE queued
    /\ saveTimer' = IF rev # "p3" THEN Timer(Config) ELSE saveTimer
    /\ storage' = IF rev = "p3" THEN Item(toJSON(Config)) ELSE storage
    /\ tickTimers' = tickTimers + 1
    /\ mount' = "effects"
    /\ UNCHANGED <<startDate, startDateObj, hoursLight, hoursDark, durationDays, now,
                   errorMsg, memo, alerted, rev, storedAtMount>>

\* the render of the queued state updates, and the autosave effect when one
\* of its dependencies changed
MountRender ==
    /\ mount = "effects"
    /\ startDate' = queued.startDate
    /\ startDateObj' = IF startDate' = startDate THEN startDateObj
                       ELSE parseStart(startDate', now)
    /\ hoursLight' = queued.hoursLight
    /\ hoursDark' = queued.hoursDark
    /\ durationDays' = queued.durationDays
    /\ errorMsg' = validateMsg(startDate', hoursLight', hoursDark', durationDays')
    /\ UNCHANGED <<now, tickTimers, alerted, rev, storedAtMount>>
    /\ Rerender
    /\ saveTimer' = IF rev # "p3" /\ Config' # Config THEN Timer(Config') ELSE saveTimer
    /\ storage' = IF rev = "p3" /\ Config' # Config THEN Item(toJSON(Config')) ELSE storage
    /\ queued' = NoCfg
    /\ mount' = "mounted"

\* the root is unmounted: every cleanup runs
Unmount ==
    /\ mount = "mounted"
    /\ saveTimer' = NoTimer
    /\ tickTimers' = tickTimers - 1
    /\ mount' = "unmounted"
    /\ UNCHANGED <<startDate, startDateObj, hoursLight, hoursDark, durationDays, now,
                   errorMsg, memo, storage, queued, alerted, rev, storedAtMount>>

NextMount ==
    \/ \E strict \in BOOLEAN : MountEffects(strict)
    \/ StrictCleanup
    \/ StrictRemount
    \/ MountRender
    \/ SaveFire
    \/ TickSave
    \/ Unmount

SpecMount == InitMount /\ [][NextMount]_vars

\* src/unnamed/part_003 mounted: the record is written on every change.

\* new Date(startDate), falling back to today's midnight
parseStart_p3(s, clock) == IF s.kind = "ok" THEN s.t ELSE startOfDay(clock)

\* handleImport: if (obj.x !== undefined) setX(Number(obj.x)), for properties
\* that are numbers, null or not present
recImport_p3(f, x, cur) ==
    IF f.json /\ x.kind \in {"num", "null"} THEN NumberOf(x) ELSE cur

\* a batch of setters, the render and the autosave effect that follow
P3Update(sd, hL, hD, dd, alert) ==
    /\ rev = "p3"
    /\ startDate' = sd
    /\ startDateObj' = IF sd = startDate THEN startDateObj ELSE parseStart_p3(sd, now)
    /\ hoursLight' = hL
    /\ hoursDark' = hD
    /\ durationDays' = dd
    /\ UNCHANGED <<now, errorMsg>>
    /\ Rerender
    /\ Effects(alert)

SetHoursLight_p3 ==
    \E v \in TypedLight :
        P3Update(startDate, clamp(v, 0, Hrs(MaxHours)), hoursDark, durationDays, FALSE)
SetHoursDark_p3 ==
    \E v \in TypedDark :
        P3Update(startDate, hoursLight, clamp(v, 0, Hrs(MaxHours)), durationDays, FALSE)
resetDefaults_p3 ==
    P3Update(defaultStart("p3", now), Hrs(DefaultHoursLight), Hrs(DefaultHoursDark),
             DefaultDurationDays, FALSE)
ImportFile_p3(f) ==
    P3Update(recStart(f, startDate), recImport_p3(f, f.hoursLight, hoursLight),
             recImport_p3(f, f.hoursDark, hoursDark),
             recImport_p3(f, f.durationDays, durationDays), ~f.json)

\* files imported: not JSON; 12/15 (the default sum of 27 h, nothing else);
\* a record with a start, 10 h of light and 2 days
P3Files ==
    {NotJson,
     File(Absent, Num(Hrs(12)), Num(Hrs(15)), Absent),
     File(DateStr(HalfHour), Num(Hrs(10)), Absent, Num(2))}
ImportP3 == \E f \in P3Files : ImportFile_p3(f)

\* instants the page is opened at, and the last one the interval reaches
P3Nows == {Hrs(15), Hrs(15) + HalfHour}
TickP3 == Tick /\ now < Hrs(15) + MaxSaveTicks * NowStep

InitP3 ==
    /\ rev = "p3"
    /\ now \in P3Nows
    /\ startDate = defaultStart("p3", now)
    /\ startDateObj = parseStart_p3(startDate, now)
    /\ hoursLight = Hrs(DefaultHoursLight)
    /\ hoursDark = Hrs(DefaultHoursDark)
    /\ durationDays = DefaultDurationDays
    /\ errorMsg = ""
    /\ FirstRender
    /\ storage = Item(toJSON(Config))
    /\ storedAtMount = NoItem
    /\ saveTimer = NoTimer
    /\ tickTimers = 1
    /\ mount = "mounted"
    /\ queued = NoCfg
    /\ alerted = FALSE

NextP3 ==
    \/ SetHoursLight_p3
    \/ SetHoursDark_p3
    \/ resetDefaults_p3
    \/ ImportP3
    \/ TickP3

SpecP3 == InitP3 /\ [][NextP3]_vars

-----------------------------------------------------------------------------
(* Properties *)

\* hours-since-start values the properties are evaluated at: the live one,
\* its mirror image, zero, one unit, and far before / after the start
SampleHours ==
    {hoursSinceStartNow, 0 - hoursSinceStartNow, 0, 1, 0 - Hrs(100), Hrs(100000)}

\* the calendar instant of cell (d, h): hour h of the d-th day after the start date
cellInstant(d, h) == startOfDay(startDateObj) + d * SecPerDay + h * SecPerHour

Rows == 0..(calendarDays - 1)
Cols == 0..(HoursPerDay - 1)

\* C1: for a valid configuration and now inside the grid, the cell of the
\* calendar day and hour of now shows the same phase as the live indicator
\* (both components).
C1_GridIndicatorAgreement ==
    (validateInputs /\ currentDayIndex24h_B \in Rows) =>
        /\ calendar[currentDayIndex24h_B][currentHourIndex_B] = isNowLight
        /\ calendar_B[currentDayIndex24h_B][currentHourIndex_B].isLight = isNowLight

\* C2: the in-cycle offset lies in [0, cycleLength) for negative, zero and
\* positive hours since start; 5 h before the start of a 10/10 cycle it is 15 h
\* and the phase is dark.
C2_FlooredModulo ==
    /\ 0 <= currentInCycle /\ currentInCycle < cycleLength
    /\ \A x \in SampleHours :
          0 <= InCycle(x, cycleLength) /\ InCycle(x, cycleLength) < cycleLength
    /\ (hoursLight = Hrs(10) /\ hoursDark = Hrs(10) /\ hoursSinceStartNow = 0 - Hrs(5)) =>
          (currentInCycle = Hrs(15) /\ ~isNowLight)

C2_Witness ==
    /\ hoursLight = Hrs(10) /\ hoursDark = Hrs(10)
    /\ hoursSinceStartNow = 0 - Hrs(5)
    /\ currentInCycle = Hrs(15)

\* C3: the phase is light exactly when the floored in-cycle offset is strictly
\* below lightHours: dark at offset = lightHours, light at offset 0 when
\* lightHours > 0.
C3_PhasePartition ==
    /\ isNowLight <=> (hoursSinceStartNow % cycleLength) < hoursLight
    /\ \A x \in SampleHours :
          isLightAtAbsoluteHours(x) <=> (x % cycleLength) < hoursLight
    /\ (hoursSinceStartNow % cycleLength) = hoursLight => ~isNowLight
    /\ ((hoursSinceStartNow % cycleLength) = 0 /\ hoursLight > 0) => isNowLight
    /\ (hoursLight = Hrs(13) /\ hoursDark = Hrs(14) /\ hoursSinceStartNow = Hrs(13)) => ~isNowLight

C3_Witness ==
    /\ hoursLight = Hrs(13) /\ hoursDark = Hrs(14)
    /\ hoursSinceStartNow = Hrs(13)
    /\ currentInCycle = hoursLight
    /\ ~isNowLight

\* C4: the phase at x equals the phase at x + k * cycleLength for every
\* integer k, in isLightAtAbsoluteHours and in getLightPhase.
C4_Periodicity ==
    \A x \in SampleHours : \A k \in (0 - MaxK)..MaxK :
        /\ isLightAtAbsoluteHours(x) = isLightAtAbsoluteHours(x + k * cycleLength)
        /\ getLightPhase(x, hoursLight, cycleLength)
             = getLightPhase(x + k * cycleLength, hoursLight, cycleLength)

C4_Witness ==
    /\ hoursLight > 0 /\ hoursDark > 0
    /\ hoursSinceStartNow < 0
    /\ hoursSinceStartNow + cycleLength > 0
    /\ ~isLightAtAbsoluteHours(hoursSinceStartNow)
    /\ ~getLightPhase(hoursSinceStartNow + cycleLength, hoursLight, cycleLength)

\* C5: with lightHours = 0 every instant is dark, whatever darkHours is: the
\* live indicator, the unified phase function and every grid cell.
C5_AlwaysDark ==
    hoursLight = 0 =>
        /\ ~isNowLight
        /\ \A x \in SampleHours :
              ~isLightAtAbsoluteHours(x) /\ ~getLightPhase(x, hoursLight, cycleLength)
        /\ \A d \in Rows : \A h \in Cols : ~calendar[d][h]

C5_Witness ==
    /\ hoursLight = 0 /\ hoursDark = Hrs(24)
    /\ hoursSinceStartNow < 0
    /\ ~isNowLight
    /\ ~calendar[0][0]

\* C6 as stated: with darkHours = 0 every instant is light, lightHours = 0
\* included.
C6_AlwaysLight_Original ==
    hoursDark = 0 =>
        /\ isNowLight
        /\ \A x \in SampleHours :
              isLightAtAbsoluteHours(x) /\ getLightPhase(x, hoursLight, cycleLength)
        /\ \A d \in Rows : \A h \in Cols : calendar[d][h]

\* C6 amended: with darkHours = 0 and lightHours > 0 every instant is light
\* (with both zero every instant is dark).
C6_AlwaysLight ==
    /\ (hoursDark = 0 /\ hoursLight > 0) =>
          /\ isNowLight
          /\ \A x \in SampleHours :
                isLightAtAbsoluteHours(x) /\ getLightPhase(x, hoursLight, cycleLength)
          /\ \A d \in Rows : \A h \in Cols : calendar[d][h]
    /\ (hoursDark = 0 /\ hoursLight = 0) =>
          /\ ~isNowLight
          /\ \A d \in Rows : \A h \in Cols : ~calendar[d][h]

C6_Witness ==
    /\ hoursDark = 0 /\ hoursLight = Hrs(10)
    /\ hoursSinceStartNow < 0
    /\ isNowLight
    /\ calendar[0][10]

\* sizes of the small step past the reported transition
EpsSamples == {1, 60}

\* C7 as stated: for every valid configuration hoursToNext >= 0 and the phase
\* just after the reported transition is the opposite of the current phase.
C7_NextTransition_Original ==
    validateInputs =>
        /\ nextChangeEvent.hoursToNext >= 0
        /\ \A eps \in EpsSamples :
              isLightAtAbsoluteHours(hoursSinceStartNow + nextChangeEvent.hoursToNext + eps)
                # isNowLight

\* C7 amended: hoursToNext >= 0 always; when lightHours > 0 and darkHours > 0
\* the phase at the reported transition, and for every eps below the length of
\* the shorter phase after it, is the opposite of the current phase.
C7_NextTransition ==
    /\ nextChangeEvent.hoursToNext >= 0
    /\ (hoursLight > 0 /\ hoursDark > 0) =>
          \A eps \in EpsSamples \cup {Min(hoursLight, hoursDark) - 1} :
              isLightAtAbsoluteHours(hoursSinceStartNow + nextChangeEvent.hoursToNext + eps)
                # isNowLight
    /\ (hoursLight = 0 \/ hoursDark = 0) =>
          \A eps \in EpsSamples :
              isLightAtAbsoluteHours(hoursSinceStartNow + nextChangeEvent.hoursToNext + eps)
                = isNowLight

C7_Witness ==
    /\ hoursLight > 0 /\ hoursDark > 0
    /\ hoursSinceStartNow < 0
    /\ ~isNowLight
    /\ nextChangeEvent.hoursToNext > 0
    /\ isLightAtAbsoluteHours(hoursSinceStartNow + nextChangeEvent.hoursToNext + 1)

\* C8: in light the next state is Oscuridad after lightHours - currentInCycle,
\* in dark it is Luz after cycleLength - currentInCycle; the value reported is
\* never negative (the replacement by 0 never changes these values).
C8_NextTransitionFormula ==
    /\ isNowLight =>
          /\ nextChangeEvent.nextState = "Oscuridad"
          /\ nextChangeEvent.hoursToNext = hoursLight - currentInCycle
    /\ ~isNowLight =>
          /\ nextChangeEvent.nextState = "Luz"
          /\ nextChangeEvent.hoursToNext = cycleLength - currentInCycle
    /\ nextChangeEvent.hoursToNext >= 0

C8_Witness ==
    /\ isNowLight
    /\ currentInCycle > 0
    /\ nextChangeEvent.nextState = "Oscuridad"
    /\ nextChangeEvent.hoursToNext = hoursLight - currentInCycle
    /\ nextChangeEvent.hoursToNext < hoursLight

\* C9: the grid has rows 0..days-1 of 24 cells, and cell (d, h) is light exactly
\* when the instant "hour h of the d-th calendar day from the start date" falls
\* in the light part of the cycle counted from the start instant; cell (0, 0)
\* is the phase at local midnight of the start date (both components).
C9_GridCellFormula ==
    /\ DOMAIN calendar = Rows
    /\ \A d \in Rows : DOMAIN calendar[d] = Cols
    /\ \A d \in Rows : \A h \in Cols :
          /\ calendar[d][h] <=> ((cellInstant(d, h) - startDateObj) % cycleLength) < hoursLight
          /\ calendar_B[d][h].isLight = calendar[d][h]
    /\ calendar[0][0] <=>
          ((startOfDay(startDateObj) - startDateObj) % cycleLength) < hoursLight

C9_Witness ==
    /\ getMinutes(startDateObj) # 0
    /\ isLightAtAbsoluteHours(0)
    /\ ~calendar[0][0]
    /\ calendar[0][1]

C12_DayAligned ==
    (/\ fractionalStartOffset = 0
     /\ hoursLight + hoursDark = Hrs(HoursPerDay)
     /\ hoursLight % SecPerHour = 0) =>
        \A d \in Rows : \A h \in Cols :
            /\ calendar[d][h] <=> (h < hoursLight \div SecPerHour)
            /\ calendar_B[d][h].isLight <=> (h < hoursLight \div SecPerHour)
            /\ calendar[d] = calendar[0]

C12_Witness ==
    /\ fractionalStartOffset = 0
    /\ hoursLight = Hrs(12) /\ hoursDark = Hrs(12)
    /\ durationDays = 2
    /\ \A d \in 0..1 : calendar[d][0] /\ calendar[d][11] /\ ~calendar[d][12] /\ ~calendar[d][23]

\* C13: the cycle index is the floor of hoursSinceStart / cycleLength: hours
\* since start = index * cycleLength + in-cycle offset with the offset in
\* [0, cycleLength), and the index is negative at every instant before the start.
C13_CycleIndex ==
    /\ hoursSinceStartNow = customCycleDayIndex * cycleLength + currentInCycle
    /\ 0 <= currentInCycle /\ currentInCycle < cycleLength
    /\ customCycleDayIndex * cycleLength <= hoursSinceStartNow
    /\ hoursSinceStartNow < (customCycleDayIndex + 1) * cycleLength
    /\ hoursSinceStartNow < 0 => customCycleDayIndex < 0

C13_Witness ==
    /\ hoursSinceStartNow < 0
    /\ customCycleDayIndex = 0 - 1
    /\ currentInCycle > 0
    /\ hoursSinceStartNow + cycleLength = currentInCycle

C20_LiveStatusFresh ==
    /\ memo.hss = hoursSinceStartNow
    /\ memo.inC = currentInCycle
    /\ memo.lit = isNowLight
    /\ memo.next = nextChangeEvent

C20_Witness ==
    /\ hoursLight = 0 /\ hoursDark = Hrs(10)
    /\ hoursSinceStartNow = Hrs(1)
    /\ ~memo.lit
    /\ memo.inC = Hrs(1)
    /\ memo.next = [hoursToNext |-> Hrs(9), nextState |-> "Luz", at |-> now + Hrs(9)]

\* C11: for every durationDays held in state (zero, negative and above 9999
\* included, as they arrive through import or storage) the calendar has at
\* least 1 and at most 9999 rows, and every row has the 24 cells of hours 0..23
\* (both components).
C11_GridShape ==
    LET rows == DOMAIN calendar
        rows_B == DOMAIN calendar_B
    IN  /\ Cardinality(rows) \in 1..MaxDurationDays
        /\ rows = 0..(Cardinality(rows) - 1)
        /\ \A d \in rows : DOMAIN calendar[d] = 0..23
        /\ rows_B = rows
        /\ \A d \in rows_B : DOMAIN calendar_B[d] = 0..23

C11_Witness ==
    /\ durationDays <= 0
    /\ errorMsg # ""
    /\ Cardinality(DOMAIN calendar) = 1
    /\ DOMAIN calendar[0] = 0..23

\* the configuration is valid: parsable start date, hours not negative,
\* duration at least one day
ValidConfig ==
    /\ startDate.kind = "ok"
    /\ hoursLight >= 0 /\ hoursDark >= 0
    /\ durationDays >= 1

\* C15: after any sequence of form edits, imports and loads, the phase
\* calculator, the grid builder and the next-transition query are never
\* evaluated with an unparsable start date, negative hours or a non-positive
\* duration (the values each memo was last computed with are valid).
C15_InvalidNeverEvaluated ==
    /\ startDate.kind = "ok"
    /\ memo.litDeps[2] >= 0
    /\ memo.nextDeps[4] >= 0 /\ memo.nextDeps[5] >= 0
    /\ memo.cal.hL >= 0 /\ memo.calDeps[4] >= 0
    /\ memo.cal.dd >= 1

\* C16: the only value substituted for an invalid input is the epsilon cycle
\* length; an empty or unparsable start date is reported, and the instant the
\* phase, grid and next transition are computed from is always the instant the
\* start date denotes, never another one such as the current time.
C16_NoSilentDefaults ==
    /\ cycleLength # hoursLight + hoursDark =>
          (hoursLight + hoursDark <= 0 /\ cycleLength = Epsilon)
    /\ startDate.kind # "ok" => errorMsg # ""
    /\ startDate.kind = "ok" /\ memo.hssDeps[2] = startDate.t

\* C17: the cycle length is strictly positive in every reachable state: the
\* sum of the hours when that is positive, the epsilon otherwise; the modulo
\* and the division are then defined.
C17_CycleLengthGuard ==
    /\ cycleLength > 0
    /\ hoursLight + hoursDark > 0 => cycleLength = hoursLight + hoursDark
    /\ hoursLight + hoursDark <= 0 => cycleLength = Epsilon
    /\ \A x \in SampleHours : InCycle(x, cycleLength) \in 0..(cycleLength - 1)
    /\ customCycleDayIndex * cycleLength <= hoursSinceStartNow
    /\ memo.inCDeps[2] > 0

C17_Witness ==
    /\ hoursLight + hoursDark < 0
    /\ cycleLength = Epsilon
    /\ currentInCycle = 0

\* C18: once a configuration change has been processed the error message is
\* non-empty exactly when the configuration is invalid, so it is cleared as
\* soon as the configuration is valid again.
C18_ValidationMessage ==
    (errorMsg # "") <=> ~ValidConfig

C18_Witness ==
    /\ hoursLight >= 0 /\ hoursDark < 0 /\ startDate.kind = "ok" /\ durationDays >= 1
    /\ errorMsg = "Horas de oscuridad invalidas."

\* C19: after any sequence of form edits, imports, resets and loads the
\* displayed calendar is the grid built from the current configuration (for a
\* parsable start date: from the instant it denotes), in both components.
C19_GridFresh ==
    /\ displayedCalendar = calendar
    /\ displayedCalendar_B = calendar_B
    /\ startDate.kind = "ok" => startDateObj = startDate.t

C19_Witness ==
    /\ startDate = DateStr(HalfHour)
    /\ hoursLight = Hrs(12) /\ hoursDark = Hrs(10) /\ durationDays = 2
    /\ DOMAIN displayedCalendar = 0..1
    /\ ~displayedCalendar[0][0] /\ displayedCalendar[0][1]
    /\ ~displayedCalendar[0][13] /\ displayedCalendar[0][23]

QuarterHour == SecPerHour \div 4

\* the instants of [from, from + len) on the quarter-hour grid, and the last one
Stretch(from, len) ==
    {from + k * QuarterHour : k \in 0..((len - 1) \div QuarterHour)} \cup {from + len - 1}

\* C22: for lightHours > 0 and darkHours > 0 the phase alternates Light, Dark,
\* Light, ...: the stretch that contains the elapsed time began at in-cycle
\* offset 0 (light) or lightHours (dark), lasts exactly lightHours or darkHours,
\* is followed by a stretch of the other phase of exactly the other length, and
\* over a whole cycle the phase changes to Light only at offset 0 and to Dark
\* only at offset lightHours.
C22_TwoStateCycle ==
    (hoursLight > 0 /\ hoursDark > 0) =>
        LET x == hoursSinceStartNow
            lit == isLightAtAbsoluteHours(x)
            from == IF lit THEN x - currentInCycle ELSE x - (currentInCycle - hoursLight)
            len == IF lit THEN hoursLight ELSE hoursDark
            other == IF lit THEN hoursDark ELSE hoursLight
        IN  /\ lit = isNowLight
            /\ from <= x /\ x < from + len
            /\ InCycle(from, cycleLength) = (IF lit THEN 0 ELSE hoursLight)
            /\ \A y \in Stretch(from, len) : isLightAtAbsoluteHours(y) = lit
            /\ isLightAtAbsoluteHours(from - 1) # lit
            /\ \A y \in Stretch(from + len, other) : isLightAtAbsoluteHours(y) # lit
            /\ isLightAtAbsoluteHours(from + len + other) = lit
            /\ \A y \in Stretch(from, cycleLength + 1) :
                  isLightAtAbsoluteHours(y) # isLightAtAbsoluteHours(y - 1) =>
                      InCycle(y, cycleLength) = (IF isLightAtAbsoluteHours(y) THEN 0 ELSE hoursLight)

C22_Witness ==
    /\ hoursLight = Hrs(10) /\ hoursDark = Hrs(14)
    /\ hoursSinceStartNow = Hrs(10)
    /\ ~isNowLight
    /\ isLightAtAbsoluteHours(hoursSinceStartNow - 1)
    /\ isLightAtAbsoluteHours(hoursSinceStartNow + Hrs(14))
    /\ ~isLightAtAbsoluteHours(hoursSinceStartNow + Hrs(14) - 1)

\* the cell of the grid whose calendar hour contains now (none when now is
\* before the start date or past the last row)
cellOfNow ==
    {c \in Rows \X Cols :
        cellInstant(c[1], c[2]) <= now /\ now < cellInstant(c[1], c[2]) + SecPerHour}

\* C24: in both components the cell marked as current is the cell of the
\* calendar day (counted midnight to midnight from the start date) and local
\* hour that contain now, and no cell is marked when there is no such cell.
C24_HighlightedCell ==
    /\ {c \in Rows \X Cols : c[1] = currentDayIndex24h_B /\ c[2] = currentHourIndex_B}
          = cellOfNow
    /\ {c \in Rows \X Cols : c[1] = currentDayIndex24h /\ c[2] = currentHourIndex}
          = cellOfNow

\* C30: for lightHours > 0 and darkHours > 0 the reported transition is the
\* next one: 0 < hoursToNext <= length of the current phase, the phase is the
\* same on all of [elapsed, elapsed + hoursToNext), and the reported instant is
\* not earlier than now.
C30_NextIsNext ==
    (hoursLight > 0 /\ hoursDark > 0) =>
        /\ 0 < nextChangeEvent.hoursToNext
        /\ nextChangeEvent.hoursToNext <= (IF isNowLight THEN hoursLight ELSE hoursDark)
        /\ \A y \in Stretch(hoursSinceStartNow, nextChangeEvent.hoursToNext) :
              isLightAtAbsoluteHours(y) = isNowLight
        /\ nextChangeEvent.at >= now
        /\ nextChangeEvent.at = now + nextChangeEvent.hoursToNext

C30_Witness ==
    /\ hoursLight = Hrs(12) + HalfHour /\ hoursDark = Hrs(11) + HalfHour
    /\ hoursSinceStartNow < 0
    /\ ~isNowLight
    /\ nextChangeEvent.hoursToNext = 0 - hoursSinceStartNow
    /\ nextChangeEvent.hoursToNext < hoursDark

\* C25: in part_004, for lightHours > 0 and darkHours > 0: in the dark phase
\* the reported lightStart is the instant of the next dark-to-light change,
\* now + hoursToNext; in the light phase lightStart <= now < lightEnd and
\* lightEnd = now + hoursToNext.
C25_TodaySchedule ==
    (hoursLight > 0 /\ hoursDark > 0) =>
        IF isNowLight_p4
        THEN /\ lightScheduleToday_p4.lightStart <= formatDateTime(now)
             /\ now < lightScheduleToday_p4.lightEnd
             /\ lightScheduleToday_p4.lightEnd = formatDateTime(nextChangeEvent_p4.at)
        ELSE lightScheduleToday_p4.lightStart = formatDateTime(nextChangeEvent_p4.at)

\* C29: importing a file that is not JSON, or is JSON but not an object,
\* changes none of the four fields and raises the alert; importing a record
\* raises no alert and changes only fields the record supplies.
C29_ImportFailure ==
    [][\A f \in IOFiles : ImportFile(f) =>
          /\ ~f.object =>
                /\ UNCHANGED <<startDate, hoursLight, hoursDark, durationDays>>
                /\ alerted'
          /\ f.object =>
                /\ ~alerted'
                /\ f.startDate.kind = "absent" => startDate' = startDate
                /\ f.hoursLight.kind = "absent" => hoursLight' = hoursLight
                /\ f.hoursDark.kind = "absent" => hoursDark' = hoursDark
                /\ f.durationDays.kind = "absent" => durationDays' = durationDays]_vars

C21_TimerLifecycle ==
    /\ [](/\ tickTimers \in {0, 1}
          /\ tickTimers = 1 <=> mount \in {"strictSetup", "effects", "mounted"})
    /\ [][now' # now => mount = "mounted" /\ mount' = "mounted"]_vars
C21_Witness ==
    /\ mount = "unmounted"
    /\ tickTimers = 0
    /\ now = MaxSaveTicks * NowStep

\* C27: when a valid configuration S is stored at mount, then once the root
\* is mounted and no save is pending, the state and the stored record are S.
C27_LoadBeforeSave ==
    \A S \in StoredConfigs :
        (/\ storedAtMount = Item(toJSON(S)) /\ rev \in {"app", "p3"}
         /\ mount = "mounted" /\ ~saveTimer.pending) =>
            Config = S /\ storage = Item(toJSON(S))

\* C23: exporting the configuration and importing the file, and saving it
\* and loading it on the next mount (src/src/App.jsx and part_002), give
\* back the same four fields, also when hoursLight or hoursDark is 0.
C23_RoundTrip ==
    \A S \in StoredConfigs :
        /\ [startDate |-> recStart(toJSON(S), startDate),
            hoursLight |-> recNumber(toJSON(S), toJSON(S).hoursLight, hoursLight),
            hoursDark |-> recNumber(toJSON(S), toJSON(S).hoursDark, hoursDark),
            durationDays |-> recNumber(toJSON(S), toJSON(S).durationDays, durationDays)] = S
        /\ (/\ storedAtMount = Item(toJSON(S)) /\ rev \in {"app", "p2"}
            /\ mount = "mounted" /\ ~saveTimer.pending) => Config = S

\* C26: in part_003 the live indicator on the page is the phase of the
\* current instant under the current hoursLight, after every edit, import
\* and reset.
C26_IndicatorFresh ==
    rev = "p3" => memo.lit = isLightAtAbsoluteHours_p3(hoursSinceStartNow)

====
